---- MODULE Spec2Model ----
(***************************************************************************)
(* A model of src/simple_board.py: SimpleGoBoard, a padded one-dimensional *)
(* Go board used for five-in-a-row.  Boards are objects on a heap and each *)
(* board refers to its cell array by reference, as the Python object does, *)
(* so that copy() and is_legal() are statements about aliasing.            *)
(***************************************************************************)
EXTENDS Integers, Sequences, FiniteSets, TLC

VARIABLES objs, arrays, region, op, ret

vars == <<objs, arrays, region, op, ret>>

(* ---------------------------------------------------------------------- *)
(* Names imported from board_util (src/simple_board.py:13-14).             *)
(* ---------------------------------------------------------------------- *)
EMPTY == "EMPTY"
BLACK == "BLACK"
WHITE == "WHITE"
BORDER == "BORDER"
\* Python's None: the unset value of winner and ko_recapture
None == "None"
\* PASS is a reserved move value that is no address of any board
PASS == -1
MAXSIZE == 25

Colors == {BLACK, WHITE}

is_black_white(color) == color \in Colors

\* GoBoardUtil.opponent
opponent(color) == IF color = BLACK THEN WHITE ELSE BLACK

\* coord_to_point(row, col, boardsize)
coord_to_point(row, col, boardsize) == row * (boardsize + 1) + col

(* ---------------------------------------------------------------------- *)
(* Bounds of the model.                                                    *)
(* ---------------------------------------------------------------------- *)
\* largest board created in Spec
MaxSize == 6
\* largest board created in SpecLegal and SpecCopy
MaxTrialSize == 5
\* most playable cells of a board created in SpecFree
MaxFree == 9
\* largest board created in SpecEye
MaxEyeSize == 3
\* largest board created in SpecBlock
MaxBlockSize == 3
\* largest board created in SpecDuel
MaxDuelSize == 5

(* ---------------------------------------------------------------------- *)
(* The heap: objs[i] is a SimpleGoBoard, arrays[a] a numpy array; the      *)
(* field board of an object is the index of its array.                     *)
(* ---------------------------------------------------------------------- *)
Heap == [objs |-> objs, arrays |-> arrays]

\* the board the callers play on
Self == 1

\* len(self.board)
len(a) == Cardinality(DOMAIN a)

\* self.board of object self in heap h
board_of(h, self) == h.arrays[h.objs[self].board]

get_color(h, self, point) == board_of(h, self)[point]

\* row_start without the border column
row_start_at_border(size, row) == row * (size + 1)

row_start(size, row) == row * (size + 1) + 1

_initialize_empty_points(size, board) ==
  [i \in DOMAIN board |->
     IF \E row \in 1..size : i >= row_start(size, row) /\ i < row_start(size, row) + size
     THEN EMPTY ELSE board[i]]

\* np.full(n, v)
np_full(n, v) == [i \in 0..(n - 1) |-> v]

\* np.copy(a)
np_copy(a) == [i \in DOMAIN a |-> a[i]]

\* the fields reset(size) assigns; board is the index of the new array
reset(size, aid) ==
  [size |-> size, NS |-> size + 1, WE |-> 1, ko_recapture |-> None,
   current_player |-> BLACK, maxpoint |-> size * size + 3 * (size + 1),
   board |-> aid, winner |-> None]

\* SimpleGoBoard(size): a new object and a new array on heap h
SimpleGoBoard(h, size) ==
  LET aid == Len(h.arrays) + 1
      b == reset(size, aid)
      arr == _initialize_empty_points(size, np_full(b.maxpoint, BORDER))
  IN [h |-> [objs |-> Append(h.objs, b), arrays |-> Append(h.arrays, arr)],
      id |-> Len(h.objs) + 1]

\* copy() without b.board = np.copy(self.board): b keeps its empty board
copy_fresh(h, self) ==
  LET c == SimpleGoBoard(h, h.objs[self].size)
      b == c.id
      s == h.objs[self]
      nb == [c.h.objs[b] EXCEPT !.winner = s.winner,
                                !.ko_recapture = s.ko_recapture,
                                !.current_player = s.current_player]
  IN [h |-> [objs |-> [c.h.objs EXCEPT ![b] = nb], arrays |-> c.h.arrays],
      id |-> b]

\* copy() with b.board = self.board
copy_alias(h, self) ==
  LET c == SimpleGoBoard(h, h.objs[self].size)
      b == c.id
      s == h.objs[self]
      nb == [c.h.objs[b] EXCEPT !.winner = s.winner,
                                !.ko_recapture = s.ko_recapture,
                                !.current_player = s.current_player,
                                !.board = s.board]
  IN [h |-> [objs |-> [c.h.objs EXCEPT ![b] = nb], arrays |-> c.h.arrays],
      id |-> b]

\* copy(): the array SimpleGoBoard allocated for b is dropped when b.board is
\* rebound to np.copy(self.board); the model stores the copy in its place
copy(h, self) ==
  LET c == SimpleGoBoard(h, h.objs[self].size)
      b == c.id
      s == h.objs[self]
      nb == [c.h.objs[b] EXCEPT !.winner = s.winner,
                                !.ko_recapture = s.ko_recapture,
                                !.current_player = s.current_player]
  IN [h |-> [objs |-> [c.h.objs EXCEPT ![b] = nb],
             arrays |-> [c.h.arrays EXCEPT ![nb.board] = np_copy(board_of(h, self))]],
      id |-> b]

(* ---------------------------------------------------------------------- *)
(* play_move                                                               *)
(* ---------------------------------------------------------------------- *)
\* one of the eight scanning loops of play_move: for i in range(5), from
\* location in steps of step, starting with count; an out-of-range location
\* neither counts nor breaks
RECURSIVE scan(_, _, _, _, _, _, _)
scan(board, n, color, location, step, i, count) ==
  IF i = 5 THEN count
  ELSE IF location > 0 /\ location < n
       THEN IF board[location] = color
            THEN scan(board, n, color, location + step, step, i + 1, count + 1)
            ELSE count
       ELSE scan(board, n, color, location, step, i + 1, count)

\* the test of an axis as count > 5
axis_wins_above_5(board, n, point, color, step) ==
  LET c1 == scan(board, n, color, point, step, 0, -1)
      c2 == scan(board, n, color, point, 0 - step, 0, c1)
  IN c2 > 5

\* the two loops of one axis and the test count >= 5; n is len(self.board)
axis_wins(board, n, point, color, step) ==
  LET c1 == scan(board, n, color, point, step, 0, -1)
      c2 == scan(board, n, color, point, 0 - step, 0, c1)
  IN c2 >= 5

\* the checks as ones that unset winner when no axis has 5
check_winner_or_none(board, size, point, color, winner) ==
  LET n == len(board)
  IN IF \/ axis_wins(board, n, point, color, 1)
        \/ axis_wins(board, n, point, color, size + 1)
        \/ axis_wins(board, n, point, color, size + 2)
        \/ axis_wins(board, n, point, color, size)
     THEN color ELSE None

\* the checks without those of the column and the diagonals
check_winner_rows_only(board, size, point, color, winner) ==
  IF axis_wins(board, len(board), point, color, 1) THEN color ELSE winner

\* the checks as ones that keep a winner already set
check_winner_first_only(board, size, point, color, winner) ==
  LET n == len(board)
  IN IF winner # None THEN winner
     ELSE IF \/ axis_wins(board, n, point, color, 1)
             \/ axis_wins(board, n, point, color, size + 1)
             \/ axis_wins(board, n, point, color, size + 2)
             \/ axis_wins(board, n, point, color, size)
     THEN color ELSE None

\* winner after the four axis checks, in the order of the code
check_winner(board, size, point, color, winner) ==
  LET n == len(board)
      w1 == IF axis_wins(board, n, point, color, 1) THEN color ELSE winner
      w2 == IF axis_wins(board, n, point, color, size + 1) THEN color ELSE w1
      w3 == IF axis_wins(board, n, point, color, size + 2) THEN color ELSE w2
      w4 == IF axis_wins(board, n, point, color, size) THEN color ELSE w3
  IN w4

\* the branch as one that also starts a new game
play_pass_resets_winner(h, self, color) ==
  [h |-> [h EXCEPT !.objs[self].current_player = opponent(color),
                   !.objs[self].winner = None],
   ret |-> TRUE]

\* the branch without its assignment
play_pass_keeps_player(h, self, color) == [h |-> h, ret |-> TRUE]

\* the branch point == PASS
play_pass(h, self, color) ==
  [h |-> [h EXCEPT !.objs[self].current_player = opponent(color)], ret |-> TRUE]

\* the test as self.board[point] == BORDER
is_border(board, point) == board[point] = BORDER

\* the test as is_black_white(self.board[point])
is_stone(board, point) == is_black_white(board[point])

\* the test of the elif: self.board[point] != EMPTY
is_occupied(board, point) == board[point] # EMPTY

\* the assignment followed by the removal of the opponent's stones next to
\* point in its row
place_stone_capturing(arrs, aid, point, color) ==
  [arrs EXCEPT ![aid] =
     [i \in DOMAIN @ |->
        IF i = point THEN color
        ELSE IF i \in {point - 1, point + 1} /\ @[i] = opponent(color) THEN EMPTY
        ELSE @[i]]]

\* self.board[point] = color
place_stone(arrs, aid, point, color) == [arrs EXCEPT ![aid][point] = color]

\* play_move handing the turn to the opponent of current_player
play_move_toggling(h, self, point, color) ==
  LET s == h.objs[self]
  IN IF point = PASS
     THEN [h |-> [h EXCEPT !.objs[self].current_player = opponent(s.current_player)],
           ret |-> TRUE]
     ELSE IF is_occupied(h.arrays[s.board], point)
     THEN [h |-> h, ret |-> FALSE]
     ELSE LET arrs == place_stone(h.arrays, s.board, point, color)
              w == check_winner(arrs[s.board], s.size, point, color, s.winner)
          IN [h |-> [objs |-> [h.objs EXCEPT ![self].winner = w,
                                             ![self].current_player =
                                               opponent(s.current_player)],
                     arrays |-> arrs],
              ret |-> TRUE]

\* play_move(point, color) on object self: the heap after the call and the
\* value returned
play_move(h, self, point, color) ==
  LET s == h.objs[self]
  IN IF point = PASS
     THEN play_pass(h, self, color)
     ELSE IF is_occupied(h.arrays[s.board], point)
     THEN [h |-> h, ret |-> FALSE]
     ELSE LET arrs == place_stone(h.arrays, s.board, point, color)
              w == check_winner(arrs[s.board], s.size, point, color, s.winner)
          IN [h |-> [objs |-> [h.objs EXCEPT ![self].winner = w,
                                             ![self].current_player = opponent(color)],
                     arrays |-> arrs],
              ret |-> TRUE]

\* is_legal playing the move on self
is_legal_on_self(h, self, point, color) == play_move(h, self, point, color)

\* is_legal(point, color): the trial copy is unreachable after the call and
\* is dropped from the heap
is_legal(h, self, point, color) ==
  LET c == copy(h, self)
      r == play_move(c.h, c.id, point, color)
  IN [h |-> [objs |-> SubSeq(r.h.objs, 1, Len(h.objs)),
             arrays |-> SubSeq(r.h.arrays, 1, Len(h.arrays))],
      ret |-> r.ret]

\* where1d(mask): the indices lo <= i < hi at which mask holds, ascending
RECURSIVE where1d_range(_, _, _)
where1d_range(mask, lo, hi) ==
  IF hi <= lo THEN <<>>
  ELSE IF hi = lo + 1 THEN (IF mask[lo] THEN <<lo>> ELSE <<>>)
  ELSE LET mid == (lo + hi) \div 2
       IN where1d_range(mask, lo, mid) \o where1d_range(mask, mid, hi)

where1d(mask) == where1d_range(mask, 0, len(mask))

get_empty_points(h, self) ==
  where1d([i \in DOMAIN board_of(h, self) |-> board_of(h, self)[i] = EMPTY])

(* ---------------------------------------------------------------------- *)
(* Neighbours, eyes, blocks and liberties                                  *)
(* ---------------------------------------------------------------------- *)
\* the four neighbours in steps of self.size instead of self.NS
_neighbors_unpadded(h, self, point) ==
  <<point - 1, point + 1, point - h.objs[self].size, point + h.objs[self].size>>

\* _neighbors(point): the list [point - 1, point + 1, point - NS, point + NS]
_neighbors(h, self, point) ==
  <<point - 1, point + 1, point - h.objs[self].NS, point + h.objs[self].NS>>

\* _diag_neighbors(point)
_diag_neighbors(h, self, point) ==
  <<point - h.objs[self].NS - 1, point - h.objs[self].NS + 1,
    point + h.objs[self].NS - 1, point + h.objs[self].NS + 1>>

\* neighbors_of_color(point, color): the neighbours of point holding color,
\* in the order of _neighbors
neighbors_of_color(h, self, point, color) ==
  LET holds(nb) == get_color(h, self, nb) = color
  IN SelectSeq(_neighbors(h, self, point), holds)

\* the test as one that takes the border for a foreign stone
_is_surrounded_by_stones(h, self, point, color) ==
  \A i \in 1..4 : board_of(h, self)[_neighbors(h, self, point)[i]] = color

\* _is_surrounded(point, color): no neighbour is other than BORDER or color
_is_surrounded(h, self, point, color) ==
  LET nbs == _neighbors(h, self, point)
  IN \A i \in 1..Len(nbs) :
       ~ (board_of(h, self)[nbs[i]] # BORDER /\ board_of(h, self)[nbs[i]] # color)

\* is_eye allowing one opponent diagonal at the edge as in the centre
is_eye_lenient(h, self, point, color) ==
  IF ~ _is_surrounded(h, self, point, color) THEN FALSE
  ELSE LET ds == _diag_neighbors(h, self, point)
           false_count ==
             Cardinality({i \in 1..Len(ds) : board_of(h, self)[ds[i]] = opponent(color)})
       IN false_count <= 1

\* is_eye(point, color): the loop over the diagonals sets at_edge at a
\* BORDER diagonal and counts the diagonals holding the opponent's color
is_eye(h, self, point, color) ==
  IF ~ _is_surrounded(h, self, point, color) THEN FALSE
  ELSE LET opp_color == opponent(color)
           ds == _diag_neighbors(h, self, point)
           b == board_of(h, self)
           at_edge == IF \E i \in 1..Len(ds) : b[ds[i]] = BORDER THEN 1 ELSE 0
           false_count ==
             Cardinality({i \in 1..Len(ds) : b[ds[i]] # BORDER /\ b[ds[i]] = opp_color})
       IN false_count <= 1 - at_edge

\* the loop over the neighbours of the popped point: a neighbour not yet
\* marked is marked and pushed; st holds marker, pointstack and marked, the
\* points in the order in which their marker was set
RECURSIVE mark_neighbors(_, _)
mark_neighbors(neighbors, st) ==
  IF neighbors = <<>> THEN st
  ELSE LET nb == Head(neighbors)
       IN IF ~ st.marker[nb]
          THEN mark_neighbors(Tail(neighbors),
                 [marker |-> [st.marker EXCEPT ![nb] = TRUE],
                  pointstack |-> Append(st.pointstack, nb),
                  marked |-> Append(st.marked, nb)])
          ELSE mark_neighbors(Tail(neighbors), st)

\* the loop while pointstack: pop the last point and look at its neighbours
\* of color
RECURSIVE flood(_, _, _, _)
flood(h, self, color, st) ==
  IF st.pointstack = <<>> THEN st
  ELSE LET p == st.pointstack[Len(st.pointstack)]
           popped == [st EXCEPT !.pointstack = SubSeq(@, 1, Len(@) - 1)]
       IN flood(h, self, color,
                mark_neighbors(neighbors_of_color(h, self, p, color), popped))

\* the run of _block_of(stone), for a stone of BLACK or WHITE: the state of
\* its loop at the end
_block_of_run(h, self, stone) ==
  flood(h, self, get_color(h, self, stone),
        [marker |-> [np_full(h.objs[self].maxpoint, FALSE) EXCEPT ![stone] = TRUE],
         pointstack |-> <<stone>>,
         marked |-> <<stone>>])

\* the block as the stone and its neighbours of the same color
_block_of_one_step(h, self, stone) ==
  [i \in 0..(h.objs[self].maxpoint - 1) |->
     \/ i = stone
     \/ \E k \in 1..4 :
          /\ _neighbors(h, self, stone)[k] = i
          /\ get_color(h, self, i) = get_color(h, self, stone)]

\* _block_of(stone): the marker returned
_block_of(h, self, stone) == _block_of_run(h, self, stone).marker

\* the test on the first stone of the block only
_has_liberty_of_first(h, self, block) ==
  LET stones == where1d(block)
  IN neighbors_of_color(h, self, stones[1], EMPTY) # <<>>

\* _has_liberty(block): some stone of the block has an EMPTY neighbour
_has_liberty(h, self, block) ==
  LET stones == where1d(block)
  IN \E i \in 1..Len(stones) : neighbors_of_color(h, self, stones[i], EMPTY) # <<>>

\* single_capture as a list: empty for None, else the one point
Single(point) == <<point>>
NoSingle == <<>>

\* the removal reported as a single capture whatever the number of stones
_detect_and_process_capture_any(h, self, nb_point) ==
  LET opp_block == _block_of(h, self, nb_point)
  IN IF ~ _has_liberty(h, self, opp_block)
     THEN [h |-> [h EXCEPT !.arrays[h.objs[self].board] =
                    [i \in DOMAIN @ |-> IF opp_block[i] THEN EMPTY ELSE @[i]]],
           ret |-> Single(nb_point)]
     ELSE [h |-> h, ret |-> NoSingle]

\* _detect_and_process_capture(nb_point): the heap after the call and the
\* value of single_capture returned
_detect_and_process_capture(h, self, nb_point) ==
  LET opp_block == _block_of(h, self, nb_point)
  IN IF ~ _has_liberty(h, self, opp_block)
     THEN LET captures == where1d(opp_block)
              cells == {captures[i] : i \in 1..Len(captures)}
          IN [h |-> [h EXCEPT !.arrays[h.objs[self].board] =
                       [i \in DOMAIN @ |-> IF i \in cells THEN EMPTY ELSE @[i]]],
              ret |-> IF Len(captures) = 1 THEN Single(nb_point) ELSE NoSingle]
     ELSE [h |-> h, ret |-> NoSingle]

(* ---------------------------------------------------------------------- *)
(* The callers' inputs                                                     *)
(* ---------------------------------------------------------------------- *)
\* the valid addresses of a board of the given size
Addresses(size) == 0..(size * size + 3 * (size + 1) - 1)

\* the playable addresses pt(row, col), 1 <= row, col <= size
Playable(size) == {coord_to_point(row, col, size) : row \in 1..size, col \in 1..size}

\* the four axes as (row, col) steps
Dirs == {<<0, 1>>, <<1, 0>>, <<1, 1>>, <<1, -1>>}

\* the addresses of the line through (row, col) along d: its playable cells
\* and the border cell at each end
Line(size, row, col, d) ==
  {coord_to_point(row + k * d[1], col + k * d[2], size) :
     k \in {j \in (0 - size - 1)..(size + 1) :
              /\ row + j * d[1] \in 0..(size + 1)
              /\ col + j * d[2] \in 0..(size + 1)}}

\* the cells the callers' lines pass through: two corners and the centre
Anchors(size) == {<<1, 1>>, <<1, size>>, <<(size + 1) \div 2, (size + 1) \div 2>>}

\* the sets of addresses a caller may keep to: one line through an anchor
Regions(size) == {Line(size, a[1], a[2], d) : a \in Anchors(size), d \in Dirs}

\* the row through the centre
CentreRow(size) ==
  {Line(size, (size + 1) \div 2, (size + 1) \div 2, <<0, 1>>)}

\* the addresses of the eight cells around (row, col)
Ring(size, row, col) ==
  {coord_to_point(row + dr, col + dc, size) : dr \in -1..1, dc \in -1..1}
    \ {coord_to_point(row, col, size)}

\* the cells the callers look at for eyes: the corners, the middle of each
\* edge and the centre
EyeAnchors(size) ==
  LET c == (size + 1) \div 2
  IN {<<1, 1>>, <<1, size>>, <<size, 1>>, <<size, size>>,
      <<1, c>>, <<c, 1>>, <<size, c>>, <<c, size>>, <<c, c>>}

\* the sets of addresses a caller looking at an eye keeps to
Rings(size) == {Ring(size, a[1], a[2]) : a \in EyeAnchors(size)}

\* the playable cells among those of the first two rows and first three
\* columns and the cell (3, 2) below their middle
Patch(size) ==
  ({coord_to_point(row, col, size) : row \in 1..2, col \in 1..3}
     \cup {coord_to_point(3, 2, size)}) \cap Playable(size)

\* the playable cells of the line through (row, col) along d
Cells(size, row, col, d) == Line(size, row, col, d) \cap Playable(size)

\* pairs of lines, the first for BLACK and the second for WHITE: the first
\* two rows, the first two columns, and the two long diagonals
Duels(size) ==
  {[BLACK |-> Cells(size, 1, 1, <<0, 1>>), WHITE |-> Cells(size, 2, 1, <<0, 1>>)],
   [BLACK |-> Cells(size, 1, 1, <<1, 0>>), WHITE |-> Cells(size, 1, 2, <<1, 0>>)],
   [BLACK |-> Cells(size, 1, 1, <<1, 1>>), WHITE |-> Cells(size, 1, size, <<1, -1>>)]}

(* ---------------------------------------------------------------------- *)
(* The state of the board the callers play on                              *)
(* ---------------------------------------------------------------------- *)
size == objs[Self].size
board == arrays[objs[Self].board]
winner == objs[Self].winner
current_player == objs[Self].current_player
ko_recapture == objs[Self].ko_recapture

(* ---------------------------------------------------------------------- *)
(* Spec: one board of a size in 2..MaxSize and calls of play_move with the *)
(* addresses of one line                                                   *)
(* ---------------------------------------------------------------------- *)
EmptyHeap == [objs |-> <<>>, arrays |-> <<>>]

\* board = SimpleGoBoard(sz), and the caller's choice of a region
Create(sz, regions) ==
  LET c == SimpleGoBoard(EmptyHeap, sz)
  IN /\ objs = c.h.objs
     /\ arrays = c.h.arrays
     /\ region \in regions
     /\ op = "create"
     /\ ret = None

Init == \E sz \in 2..MaxSize : Create(sz, Regions(sz))

\* obj.play_move(point, color); name tells the board played on
PlayMoveOn(self, point, color, name) ==
  LET r == play_move(Heap, self, point, color)
  IN /\ objs' = r.h.objs
     /\ arrays' = r.h.arrays
     /\ op' = name
     /\ ret' = r.ret
     /\ UNCHANGED region

PlayMove(point, color) == PlayMoveOn(Self, point, color, "play_move")

Next ==
  \E point \in region \cup {PASS}, color \in Colors : PlayMove(point, color)

Spec == Init /\ [][Next]_vars

(* ---------------------------------------------------------------------- *)
(* SpecFree: a board of at most MaxFree playable cells, and calls of       *)
(* play_move with every address of the board                               *)
(* ---------------------------------------------------------------------- *)
InitFree ==
  \E sz \in {n \in 2..MAXSIZE : n * n <= MaxFree} : Create(sz, {Addresses(sz)})

SpecFree == InitFree /\ [][Next]_vars

(* ---------------------------------------------------------------------- *)
(* SpecLegal: the same calls and is_legal                                  *)
(* ---------------------------------------------------------------------- *)
InitLegal == \E sz \in 2..MaxTrialSize : Create(sz, Regions(sz))

IsLegal(point, color) ==
  LET r == is_legal(Heap, Self, point, color)
  IN /\ objs' = r.h.objs
     /\ arrays' = r.h.arrays
     /\ op' = "is_legal"
     /\ ret' = r.ret
     /\ UNCHANGED region

NextLegal ==
  \/ \E point \in region \cup {PASS}, color \in Colors : PlayMove(point, color)
  \/ \E point \in region \cup {PASS}, color \in Colors : IsLegal(point, color)

SpecLegal == InitLegal /\ [][NextLegal]_vars

(* ---------------------------------------------------------------------- *)
(* SpecCopy: b = board.copy(), and calls of play_move on board and on b.   *)
(* The callers keep to the row through the centre, place BLACK stones and  *)
(* pass with either color.                                                 *)
(* ---------------------------------------------------------------------- *)
\* the copy the caller holds, once made
TheCopy == 2

InitCopy == \E sz \in 2..MaxTrialSize : Create(sz, CentreRow(sz))

\* b = board.copy(); a copy held before is dropped
Copy ==
  LET h1 == [objs |-> SubSeq(objs, 1, 1), arrays |-> SubSeq(arrays, 1, 1)]
      c == copy(h1, Self)
  IN /\ objs' = c.h.objs
     /\ arrays' = c.h.arrays
     /\ op' = "copy"
     /\ ret' = c.id
     /\ UNCHANGED region

CopyInputs == {<<point, BLACK>> : point \in region} \cup {<<PASS, color>> : color \in Colors}

NextCopy ==
  \/ Copy
  \/ \E in \in CopyInputs : PlayMove(in[1], in[2])
  \/ \E in \in CopyInputs :
       /\ Len(objs) >= TheCopy
       /\ PlayMoveOn(TheCopy, in[1], in[2], "copy.play_move")

SpecCopy == InitCopy /\ [][NextCopy]_vars

(* ---------------------------------------------------------------------- *)
(* SpecCreate: a board of every size in 2..MAXSIZE; the callers pass, play *)
(* on the first and the last address and ask for the empty points          *)
(* ---------------------------------------------------------------------- *)
Ends(sz) == {0, sz * sz + 3 * (sz + 1) - 1}

InitCreate == \E sz \in 2..MAXSIZE : Create(sz, {Ends(sz)})

GetEmptyPoints ==
  /\ op' = "get_empty_points"
  /\ ret' = get_empty_points(Heap, Self)
  /\ UNCHANGED <<objs, arrays, region>>

NextCreate ==
  \/ \E point \in region \cup {PASS}, color \in Colors : PlayMove(point, color)
  \/ GetEmptyPoints

SpecCreate == InitCreate /\ [][NextCreate]_vars

(* ---------------------------------------------------------------------- *)
(* SpecEye: a board of a size in 2..MaxEyeSize; the callers place stones   *)
(* on the cells around one point and call is_eye on every playable point   *)
(* ---------------------------------------------------------------------- *)
InitEye == \E sz \in 2..MaxEyeSize : Create(sz, Rings(sz))

IsEye(point, color) ==
  /\ op' = "is_eye"
  /\ ret' = is_eye(Heap, Self, point, color)
  /\ UNCHANGED <<objs, arrays, region>>

NextEye ==
  \/ \E point \in region \cup {PASS}, color \in Colors : PlayMove(point, color)
  \/ \E point \in Playable(size), color \in Colors : IsEye(point, color)

SpecEye == InitEye /\ [][NextEye]_vars

(* ---------------------------------------------------------------------- *)
(* SpecBlock: a board of a size in 2..MaxBlockSize; the callers place      *)
(* stones on a patch of cells in a corner, ask       for the block of a  *)
(* stone and whether the block returned has a liberty, and call            *)
(* _detect_and_process_capture on a stone                                  *)
(* ---------------------------------------------------------------------- *)
InitBlock == \E sz \in 2..MaxBlockSize : Create(sz, {Patch(sz)})

\* block = board._block_of(stone), on a stone: the code asserts
\* is_black_white(color)
BlockOf(stone) ==
  /\ is_black_white(board[stone])
  /\ op' = "_block_of"
  /\ ret' = _block_of(Heap, Self, stone)
  /\ UNCHANGED <<objs, arrays, region>>

\* board._has_liberty(block) with the block just returned
HasLiberty ==
  /\ op = "_block_of"
  /\ op' = "_has_liberty"
  /\ ret' = _has_liberty(Heap, Self, ret)
  /\ UNCHANGED <<objs, arrays, region>>

DetectAndProcessCapture(nb_point) ==
  LET r == _detect_and_process_capture(Heap, Self, nb_point)
  IN /\ is_black_white(board[nb_point])
     /\ objs' = r.h.objs
     /\ arrays' = r.h.arrays
     /\ op' = "_detect_and_process_capture"
     /\ ret' = r.ret
     /\ UNCHANGED region

NextBlock ==
  \/ \E point \in region \cup {PASS}, color \in Colors : PlayMove(point, color)
  \/ \E stone \in region : BlockOf(stone)
  \/ HasLiberty
  \/ \E nb_point \in region : DetectAndProcessCapture(nb_point)

SpecBlock == InitBlock /\ [][NextBlock]_vars

(* ---------------------------------------------------------------------- *)
(* SpecNeighbors: a board of every size in 2..MAXSIZE; the callers ask for *)
(* the neighbours and the diagonal neighbours of the corners, the middle   *)
(* of each edge and the centre                                             *)
(* ---------------------------------------------------------------------- *)
AnchorPoints(sz) == {coord_to_point(a[1], a[2], sz) : a \in EyeAnchors(sz)}

InitNeighbors == \E sz \in 2..MAXSIZE : Create(sz, {AnchorPoints(sz)})

Neighbors(point) ==
  /\ op' = "_neighbors"
  /\ ret' = _neighbors(Heap, Self, point)
  /\ UNCHANGED <<objs, arrays, region>>

DiagNeighbors(point) ==
  /\ op' = "_diag_neighbors"
  /\ ret' = _diag_neighbors(Heap, Self, point)
  /\ UNCHANGED <<objs, arrays, region>>

NextNeighbors ==
  \/ \E point \in region : Neighbors(point)
  \/ \E point \in region : DiagNeighbors(point)

SpecNeighbors == InitNeighbors /\ [][NextNeighbors]_vars

(* ---------------------------------------------------------------------- *)
(* SpecDuel: a board of a size in 2..MaxDuelSize and two lines, one for    *)
(* each color: region[color] holds the points on which the callers place   *)
(* stones of color; either color may pass                                  *)
(* ---------------------------------------------------------------------- *)
InitDuel == \E sz \in 2..MaxDuelSize : Create(sz, Duels(sz))

DuelInputs ==
  {<<point, BLACK>> : point \in region[BLACK]}
    \cup {<<point, WHITE>> : point \in region[WHITE]}
    \cup {<<PASS, color>> : color \in Colors}

NextDuel == \E in \in DuelInputs : PlayMove(in[1], in[2])

SpecDuel == InitDuel /\ [][NextDuel]_vars

(* ---------------------------------------------------------------------- *)
(* Runs of stones in (row, col) coordinates                                *)
(* ---------------------------------------------------------------------- *)
RowOf(sz, p) == p \div (sz + 1)
ColOf(sz, p) == p % (sz + 1)

\* the marker at (row, col); off the grid there is only border
CellAt(b, sz, row, col) ==
  IF row \in 1..sz /\ col \in 1..sz THEN b[coord_to_point(row, col, sz)] ELSE BORDER

\* the number of consecutive cells of color from (row, col) on along (dr, dc)
RECURSIVE Run(_, _, _, _, _, _, _)
Run(b, sz, row, col, dr, dc, color) ==
  IF CellAt(b, sz, row, col) = color
  THEN 1 + Run(b, sz, row + dr, col + dc, dr, dc, color)
  ELSE 0

\* the length of the run of color through the stone of color at p along d
RunThrough(b, sz, p, d, color) ==
  Run(b, sz, RowOf(sz, p), ColOf(sz, p), d[1], d[2], color)
    + Run(b, sz, RowOf(sz, p), ColOf(sz, p), 0 - d[1], 0 - d[2], color) - 1

\* p lies in a run of at least 5 stones of color along some axis
InFive(b, sz, p, color) == \E d \in Dirs : RunThrough(b, sz, p, d, color) >= 5

\* the board holds a run of at least 5 stones of color along d
FiveAlong(b, sz, d, color) ==
  \E p \in Playable(sz) : b[p] = color /\ RunThrough(b, sz, p, d, color) >= 5

\* the stones of color on b
StonesOf(b, color) == {p \in DOMAIN b : b[p] = color}

(* ---------------------------------------------------------------------- *)
(* Claims                                                                  *)
(* ---------------------------------------------------------------------- *)

\* C1: in every reachable state, play_move(point, color) onto an EMPTY
\* playable point sets winner to color if the stone then lies in a run of at
\* least 5 stones of color along its row, its column or a diagonal, runs
\* taken in (row, col) coordinates, and leaves winner as it was otherwise.
C1_FiveInARowSetsWinner ==
  \A p \in region \cap Playable(size), color \in Colors :
    board[p] = EMPTY =>
      LET r == play_move(Heap, Self, p, color)
      IN r.h.objs[Self].winner =
           IF InFive(board_of(r.h, Self), size, p, color) THEN color ELSE winner

\* a WHITE run of at least 5 from top right to bottom left made WHITE the winner
C1_Witness ==
  /\ op = "play_move" /\ ret = TRUE
  /\ winner = WHITE
  /\ FiveAlong(board, size, <<1, -1>>, WHITE)

\* C2: in every reachable state, play_move(point, color) on a point whose
\* cell is not EMPTY returns false and changes no field of the board and no
\* cell.
C2_OccupiedRejected ==
  \A p \in region, color \in Colors :
    board[p] # EMPTY => play_move(Heap, Self, p, color) = [h |-> Heap, ret |-> FALSE]

\* a move was rejected on a board holding stones of both colors
C2_Witness ==
  /\ op = "play_move" /\ ret = FALSE
  /\ StonesOf(board, BLACK) # {}
  /\ StonesOf(board, WHITE) # {}

\* C3: in every reachable state, play_move(PASS, color) returns true and
\* changes no cell and no field of the board other than current_player.
C3_PassChangesOnlyPlayer ==
  \A color \in Colors :
    LET r == play_move(Heap, Self, PASS, color)
    IN /\ r.ret = TRUE
       /\ r.h.arrays = arrays
       /\ r.h.objs =
            [objs EXCEPT ![Self].current_player = r.h.objs[Self].current_player]

\* WHITE, with no stone on the board, passed after BLACK had won
C3_Witness ==
  /\ op = "play_move" /\ ret = TRUE
  /\ winner = BLACK
  /\ current_player = BLACK
  /\ StonesOf(board, WHITE) = {}

\* C4: a call of is_legal changes no field and no cell of the board it is
\* called on.
C4_IsLegalLeavesBoard ==
  [][op' = "is_legal" => objs' = objs /\ arrays' = arrays]_vars

\* is_legal returned true where the only empty point of the caller's line
\* completes five in a row for BLACK, and no winner is set
C4_Witness ==
  /\ op = "is_legal" /\ ret = TRUE
  /\ winner = None
  /\ \E p \in region :
       /\ board[p] = EMPTY
       /\ \A q \in region \ {p} : board[q] # EMPTY
       /\ InFive([board EXCEPT ![p] = BLACK], size, p, BLACK)

\* the fields of object b and its cells equal those of object a
SameBoard(os, as, a, b) ==
  /\ os[b].size = os[a].size
  /\ os[b].NS = os[a].NS
  /\ os[b].WE = os[a].WE
  /\ os[b].maxpoint = os[a].maxpoint
  /\ os[b].current_player = os[a].current_player
  /\ os[b].ko_recapture = os[a].ko_recapture
  /\ os[b].winner = os[a].winner
  /\ as[os[b].board] = as[os[a].board]

\* C5: copy() leaves the original as it was and returns another board, with
\* cells of its own, whose size, cells, current_player, ko_recapture and
\* winner equal the original's; a play_move on the copy changes nothing of
\* the original and a play_move on the original changes nothing of the copy.
C5_CopyIsIndependent ==
  [][/\ op' = "copy" =>
          /\ objs'[Self] = objs[Self]
          /\ arrays'[objs[Self].board] = arrays[objs[Self].board]
          /\ ret' = TheCopy
          /\ objs'[TheCopy].board # objs'[Self].board
          /\ SameBoard(objs', arrays', Self, TheCopy)
     /\ op' = "copy.play_move" =>
          /\ objs'[Self] = objs[Self]
          /\ arrays'[objs[Self].board] = arrays[objs[Self].board]
     /\ (op' = "play_move" /\ Len(objs) >= TheCopy) =>
          /\ objs'[TheCopy] = objs[TheCopy]
          /\ arrays'[objs[TheCopy].board] = arrays[objs[TheCopy].board]
    ]_vars

\* the copy was taken of a board BLACK had won and was then passed on by
\* BLACK, and the original was then passed on by WHITE
C5_Witness ==
  /\ Len(objs) >= TheCopy
  /\ op = "play_move" /\ ret = TRUE
  /\ objs[TheCopy].winner = BLACK /\ winner = BLACK
  /\ arrays[objs[TheCopy].board] = board
  /\ StonesOf(board, BLACK) = region \cap Playable(size)
  /\ objs[TheCopy].current_player = WHITE /\ current_player = BLACK

C7_WinnerNeverCleared ==
  [][winner # None => objs'[Self].winner # None]_vars

\* after WHITE won, BLACK made a move and a move was then rejected
C7_Witness ==
  /\ op = "play_move" /\ ret = FALSE
  /\ winner = WHITE
  /\ current_player = WHITE

\* C8 as stated: after every successful play_move, current_player is the
\* opponent of current_player before the call.
C8_Original ==
  [][(op' = "play_move" /\ ret' = TRUE) =>
       objs'[Self].current_player = opponent(current_player)]_vars

\* C8, amended: in every reachable state, a successful play_move(point,
\* color) by the player to move, color = current_player, a pass included,
\* leaves current_player the opponent of current_player before the call.
C8_TogglesWhenInTurn ==
  \A p \in region \cup {PASS} :
    LET r == play_move(Heap, Self, p, current_player)
    IN r.ret => r.h.objs[Self].current_player = opponent(current_player)

\* BLACK and WHITE placed one stone each and BLACK is to move
C8_Witness ==
  /\ op = "play_move" /\ ret = TRUE
  /\ current_player = BLACK
  /\ Cardinality(StonesOf(board, BLACK)) = 1
  /\ Cardinality(StonesOf(board, WHITE)) = 1

\* every border cell holds BORDER and every playable cell EMPTY, BLACK or WHITE
CellsWellFormed ==
  /\ DOMAIN board = Addresses(size)
  /\ \A p \in Addresses(size) :
       IF p \in Playable(size)
       THEN board[p] \in {EMPTY, BLACK, WHITE}
       ELSE board[p] = BORDER

\* C9: in every reachable state every border cell holds BORDER and every
\* playable cell holds EMPTY, BLACK or WHITE, and no call of play_move
\* changes size or the length of cells.
C9_BorderAndCellsInvariant ==
  /\ []CellsWellFormed
  /\ [][/\ objs'[Self].size = size
        /\ len(arrays'[objs'[Self].board]) = len(board)]_vars

\* a move was rejected on a board without a stone: a move on a border cell
C9_Witness ==
  /\ op = "play_move" /\ ret = FALSE
  /\ StonesOf(board, BLACK) = {}
  /\ StonesOf(board, WHITE) = {}

\* the addresses row*(size+1)+col, 1 <= row, col <= size, in ascending order
EmptyOfFresh(sz) ==
  [k \in 1..(sz * sz) |-> ((k - 1) \div sz + 1) * (sz + 1) + (((k - 1) % sz) + 1)]

\* C10: a board just created, of any size in 2..MAXSIZE, has size*size +
\* 3*(size+1) cells, of which the size*size cells row*(size+1)+col, 1 <= row,
\* col <= size, are EMPTY and all others BORDER; current_player is BLACK,
\* winner and ko_recapture are unset; and get_empty_points() returns the
\* EMPTY addresses in ascending order.
C10_FreshBoard ==
  /\ op = "create" =>
       /\ size \in 2..MAXSIZE
       /\ DOMAIN board = 0..(size * size + 3 * (size + 1) - 1)
       /\ Cardinality(StonesOf(board, EMPTY)) = size * size
       /\ StonesOf(board, EMPTY) =
            {row * (size + 1) + col : row \in 1..size, col \in 1..size}
       /\ \A p \in DOMAIN board : board[p] \in {EMPTY, BORDER}
       /\ current_player = BLACK
       /\ winner = None
       /\ ko_recapture = None
       /\ get_empty_points(Heap, Self) = EmptyOfFresh(size)
  /\ op = "get_empty_points" =>
       /\ ret = EmptyOfFresh(size)
       /\ \A k \in 1..(Len(ret) - 1) : ret[k] < ret[k + 1]

\* get_empty_points() returned the 625 empty points of a board of size MAXSIZE
C10_Witness ==
  /\ op = "get_empty_points"
  /\ size = MAXSIZE
  /\ Len(ret) = MAXSIZE * MAXSIZE
  /\ StonesOf(board, BLACK) \cup StonesOf(board, WHITE) = {}

(* ---------------------------------------------------------------------- *)
(* Eyes in (row, col) coordinates                                          *)
(* ---------------------------------------------------------------------- *)
OrthSteps == {<<0, -1>>, <<0, 1>>, <<-1, 0>>, <<1, 0>>}
DiagSteps == {<<-1, -1>>, <<-1, 1>>, <<1, -1>>, <<1, 1>>}

\* the marker of the cell one step d from p
Beside(b, sz, p, d) == CellAt(b, sz, RowOf(sz, p) + d[1], ColOf(sz, p) + d[2])

\* every orthogonal neighbour of p is BORDER or color
Enclosed(b, sz, p, color) ==
  \A d \in OrthSteps : Beside(b, sz, p, d) \in {BORDER, color}

\* the number of diagonal neighbours of p that hold the opponent of color
OpponentDiagonals(b, sz, p, color) ==
  Cardinality({d \in DiagSteps : Beside(b, sz, p, d) = opponent(color)})

\* some diagonal neighbour of p is BORDER
AtEdge(b, sz, p) == \E d \in DiagSteps : Beside(b, sz, p, d) = BORDER

EyeRule(b, sz, p, color) ==
  /\ Enclosed(b, sz, p, color)
  /\ IF AtEdge(b, sz, p)
     THEN OpponentDiagonals(b, sz, p, color) = 0
     ELSE OpponentDiagonals(b, sz, p, color) <= 1

Corners(sz) ==
  {coord_to_point(1, 1, sz), coord_to_point(1, sz, sz),
   coord_to_point(sz, 1, sz), coord_to_point(sz, sz, sz)}

\* C11: in every reachable state, for every playable point and color,
\* is_eye(point, color) is true if and only if every orthogonal neighbour of
\* point is BORDER or color and the diagonal neighbours holding the opponent's
\* color number at most 1 when no diagonal neighbour is BORDER and 0 when
\* some diagonal neighbour is BORDER; and no call of is_eye changes a field
\* or a cell of the board.
C11_IsEyeRule ==
  /\ [](\A p \in Playable(size), color \in Colors :
          is_eye(Heap, Self, p, color) = EyeRule(board, size, p, color))
  /\ [][op' = "is_eye" => objs' = objs /\ arrays' = arrays]_vars

\* is_eye returned true on a board of size 3 whose empty centre has BLACK on
\* its four sides and WHITE on exactly one diagonal
C11_Witness ==
  /\ op = "is_eye" /\ ret = TRUE
  /\ size = 3
  /\ board[coord_to_point(2, 2, 3)] = EMPTY
  /\ Enclosed(board, 3, coord_to_point(2, 2, 3), BLACK)
  /\ OpponentDiagonals(board, 3, coord_to_point(2, 2, 3), BLACK) = 1
  /\ is_eye(Heap, Self, coord_to_point(2, 2, 3), BLACK)

\* C12 as stated: an EMPTY corner whose orthogonal neighbours are color or
\* BORDER is an eye of color with no opponent diagonal and also with one.
C12_Original ==
  \A p \in Corners(size), color \in Colors :
    (board[p] = EMPTY /\ Enclosed(board, size, p, color)
       /\ OpponentDiagonals(board, size, p, color) <= 1)
      => is_eye(Heap, Self, p, color)

\* C12, amended: in every reachable state, for an EMPTY corner whose
\* orthogonal neighbours are color or BORDER, is_eye(point, color) is true
\* when no diagonal neighbour holds the opponent's color and false when one
\* does.
C12_CornerEye ==
  \A p \in Corners(size), color \in Colors :
    (board[p] = EMPTY /\ Enclosed(board, size, p, color))
      => (is_eye(Heap, Self, p, color)
            <=> OpponentDiagonals(board, size, p, color) = 0)

\* is_eye returned false on a board of size 3 whose empty corner (1, 1) has
\* BLACK on its two sides and WHITE on its diagonal
C12_Witness ==
  /\ op = "is_eye" /\ ret = FALSE
  /\ size = 3
  /\ board[coord_to_point(1, 1, 3)] = EMPTY
  /\ board[coord_to_point(1, 2, 3)] = BLACK
  /\ board[coord_to_point(2, 1, 3)] = BLACK
  /\ board[coord_to_point(2, 2, 3)] = WHITE
  /\ ~ is_eye(Heap, Self, coord_to_point(1, 1, 3), BLACK)

(* ---------------------------------------------------------------------- *)
(* Blocks in (row, col) coordinates                                        *)
(* ---------------------------------------------------------------------- *)
\* playable points p and q lie side by side in a row or a column
Adjacent(sz, p, q) ==
  \/ RowOf(sz, p) = RowOf(sz, q) /\ ColOf(sz, p) - ColOf(sz, q) \in {-1, 1}
  \/ ColOf(sz, p) = ColOf(sz, q) /\ RowOf(sz, p) - RowOf(sz, q) \in {-1, 1}

\* the least set that holds S and every playable point of color adjacent to
\* one of its points
RECURSIVE Grow(_, _, _, _)
Grow(b, sz, color, S) ==
  LET more == {q \in Playable(sz) \ S : b[q] = color /\ \E p \in S : Adjacent(sz, p, q)}
  IN IF more = {} THEN S ELSE Grow(b, sz, color, S \cup more)

\* the points connected to the stone at p through adjacent stones of its color
Group(b, sz, p) == Grow(b, sz, b[p], {p})

\* the points a marker marks
Marked(marker) == {i \in DOMAIN marker : marker[i]}

\* the stones a caller may ask about
StonesIn(points) == {p \in points : is_black_white(board[p])}

\* C13: in every reachable state and for every stone, _block_of(stone) marks
\* exactly the points connected to the stone through adjacent stones of its
\* color, so no point of the other color, no EMPTY and no BORDER point; it
\* sets the marker of each of them once; and no call of _block_of changes a
\* field or a cell of the board.
C13_BlockOfIsConnectedSet ==
  /\ [](\A stone \in StonesIn(region) :
          LET run == _block_of_run(Heap, Self, stone)
              block == _block_of(Heap, Self, stone)
          IN /\ DOMAIN block = Addresses(size)
             /\ Marked(block) = Group(board, size, stone)
             /\ \A p \in Marked(block) : board[p] = board[stone]
             /\ run.marker = block
             /\ Len(run.marked) = Cardinality(Marked(block))
             /\ \A i, j \in 1..Len(run.marked) :
                  i # j => run.marked[i] # run.marked[j])
  /\ [][op' = "_block_of" => objs' = objs /\ arrays' = arrays]_vars

\* _block_of returned the three BLACK stones (1, 1), (2, 1), (2, 2) of a
\* board of size 3 that has a WHITE stone beside them and another BLACK
\* stone, at (1, 3), that touches the block at a corner only
C13_Witness ==
  /\ op = "_block_of"
  /\ size = 3
  /\ Marked(ret) = {coord_to_point(1, 1, 3), coord_to_point(2, 1, 3), coord_to_point(2, 2, 3)}
  /\ board[coord_to_point(1, 2, 3)] = WHITE
  /\ board[coord_to_point(1, 3, 3)] = BLACK
  /\ board[coord_to_point(2, 3, 3)] = EMPTY

\* C14: _has_liberty(block), called with a block returned by _block_of,
\* returns true if and only if some point of the block has an orthogonal
\* neighbour that is EMPTY, and changes nothing of the board.
C14_HasLibertyIffEmptyNeighbour ==
  [][op' = "_has_liberty" =>
       /\ ret' = (\E p \in Marked(ret), d \in OrthSteps : Beside(board, size, p, d) = EMPTY)
       /\ objs' = objs /\ arrays' = arrays]_vars

\* _has_liberty returned true for a block on a board of size 3 whose stone
\* at the lowest address, (1, 1), has no EMPTY neighbour
C14_Witness ==
  /\ op = "_has_liberty" /\ ret = TRUE
  /\ size = 3
  /\ board[coord_to_point(1, 1, 3)] = BLACK
  /\ board[coord_to_point(1, 2, 3)] = BLACK
  /\ board[coord_to_point(2, 1, 3)] = WHITE
  /\ board[coord_to_point(2, 2, 3)] = WHITE
  /\ board[coord_to_point(1, 3, 3)] = EMPTY
  /\ board[coord_to_point(2, 3, 3)] = EMPTY
  /\ board[coord_to_point(3, 2, 3)] = BLACK

\* C17: in every reachable state and for every stone,
\* _detect_and_process_capture(point) changes no cell and reports None if
\* the block of the stone has an EMPTY orthogonal neighbour; otherwise it
\* makes every point of the block EMPTY, changes no other cell, and reports
\* point if the block is the one stone and None if it has more; it changes
\* no field of the board, so not current_player and not winner.
C17_CaptureRemovesDeadBlock ==
  \A point \in StonesIn(region) :
    LET r == _detect_and_process_capture(Heap, Self, point)
        G == Group(board, size, point)
        alive == \E p \in G, d \in OrthSteps : Beside(board, size, p, d) = EMPTY
    IN /\ r.h.objs = objs
       /\ alive => (r.h.arrays = arrays /\ r.ret = NoSingle)
       /\ ~ alive =>
            /\ r.h.arrays = <<[i \in DOMAIN board |-> IF i \in G THEN EMPTY ELSE board[i]]>>
            /\ r.ret = (IF Cardinality(G) = 1 THEN Single(point) ELSE NoSingle)

\* _detect_and_process_capture took a block of more than one stone off a
\* board of size 3 and reported no single capture: the first row is EMPTY
\* and the second row holds three BLACK stones
C17_Witness ==
  /\ op = "_detect_and_process_capture" /\ ret = NoSingle
  /\ size = 3
  /\ \A col \in 1..3 : board[coord_to_point(1, col, 3)] = EMPTY
  /\ \A col \in 1..3 : board[coord_to_point(2, col, 3)] = BLACK
  /\ board[coord_to_point(3, 2, 3)] = EMPTY

C16_PlayerIsOpponentOfMover ==
  /\ [](/\ op = "create" => current_player = BLACK
        /\ \A p \in region \cup {PASS}, color \in Colors :
             LET r == play_move(Heap, Self, p, color)
             IN r.ret => r.h.objs[Self].current_player = opponent(color))
  /\ [][(op' = "play_move" /\ ret' = FALSE) =>
          objs'[Self].current_player = current_player]_vars

\* BLACK placed several stones in a row, WHITE none, and WHITE is to move
C16_Witness ==
  /\ op = "play_move" /\ ret = TRUE
  /\ current_player = WHITE
  /\ StonesOf(board, WHITE) = {}
  /\ Cardinality(StonesOf(board, BLACK)) >= 3

\* the (row, col) steps in the order of the lists _neighbors and
\* _diag_neighbors return
OrthOrder == <<(<<0, -1>>), (<<0, 1>>), (<<-1, 0>>), (<<1, 0>>)>>
DiagOrder == <<(<<-1, -1>>), (<<-1, 1>>), (<<1, -1>>), (<<1, 1>>)>>

\* address n is where one step d from the playable cell (row, col) leads: the
\* playable cell (row + d[1], col + d[2]) if that is on the grid, and
\* otherwise an address of the board that holds BORDER and is not of the
\* form r*(sz+1)+c with 1 <= r, c <= sz
LandsRight(b, sz, row, col, d, n) ==
  /\ n \in 0..(sz * sz + 3 * (sz + 1) - 1)
  /\ n \in DOMAIN b
  /\ IF row + d[1] \in 1..sz /\ col + d[2] \in 1..sz
     THEN n = (row + d[1]) * (sz + 1) + (col + d[2]) /\ b[n] # BORDER
     ELSE b[n] = BORDER /\ ~ (RowOf(sz, n) \in 1..sz /\ ColOf(sz, n) \in 1..sz)

\* C18: on a board of any size in 2..MAXSIZE and for every playable point,
\* each of the four neighbours and four diagonal neighbours the code
\* computes is an address of the board; it is the playable cell one step
\* away in (row, col) terms if that cell is on the grid and a BORDER cell
\* otherwise.
C18_NeighboursInRange ==
  /\ size \in 2..MAXSIZE
  /\ \A row \in 1..size, col \in 1..size :
       LET p == row * (size + 1) + col
           nbs == _neighbors(Heap, Self, p)
           ds == _diag_neighbors(Heap, Self, p)
       IN /\ Len(nbs) = 4 /\ Len(ds) = 4
          /\ \A i \in 1..4 : LandsRight(board, size, row, col, OrthOrder[i], nbs[i])
          /\ \A i \in 1..4 : LandsRight(board, size, row, col, DiagOrder[i], ds[i])

\* _diag_neighbors returned, for the last playable point of a board of size
\* MAXSIZE, a list that ends with the last address of the board
C18_Witness ==
  /\ op = "_diag_neighbors"
  /\ size = MAXSIZE
  /\ ret[4] = MAXSIZE * MAXSIZE + 3 * (MAXSIZE + 1) - 1
  /\ board[ret[4]] = BORDER

\* the board holds a run of at least 5 stones of color along some axis
HasFive(b, sz, color) == \E d \in Dirs : FiveAlong(b, sz, d, color)

\* C19: in every state reached from a new board by calls of play_move,
\* winner is unset if and only if the board holds no run of 5 stones of one
\* color along a row, a column or a diagonal; a winner that is set is a
\* color with such a run on the board; and on a board of size below 5
\* winner is unset.
C19_WinnerIffFiveOnBoard ==
  /\ winner = None <=> ~ \E color \in Colors : HasFive(board, size, color)
  /\ winner # None => HasFive(board, size, winner)
  /\ size < 5 => winner = None

\* BLACK is the winner on a board whose first column is BLACK and whose
\* second column is WHITE
C19_Witness ==
  /\ op = "play_move" /\ ret = TRUE
  /\ winner = BLACK
  /\ FiveAlong(board, size, <<1, 0>>, BLACK)
  /\ FiveAlong(board, size, <<1, 0>>, WHITE)

\* C20: in every reachable state in which winner is set, play_move(point,
\* color) returns true exactly for a PASS and for an EMPTY point; the PASS
\* changes current_player only; the move onto an EMPTY point places the
\* stone and leaves winner the color played if the stone completes a run of
\* at least 5 of that color, the other color's included, and as it was if
\* not.
C20_WinnerFollowsLastFive ==
  winner # None =>
    \A in \in DuelInputs :
      LET p == in[1]
          color == in[2]
          r == play_move(Heap, Self, p, color)
      IN /\ r.ret = (p = PASS \/ board[p] = EMPTY)
         /\ p = PASS =>
              /\ r.h.arrays = arrays
              /\ r.h.objs = [objs EXCEPT ![Self].current_player = opponent(color)]
         /\ (p # PASS /\ board[p] = EMPTY) =>
              /\ board_of(r.h, Self) = [board EXCEPT ![p] = color]
              /\ r.h.objs[Self].winner =
                   IF InFive(board_of(r.h, Self), size, p, color) THEN color ELSE winner

\* on a board of size 5 whose first row is BLACK and whose second row is
\* WHITE, WHITE is the winner: its run was completed after BLACK's
C20_Witness ==
  /\ op = "play_move" /\ ret = TRUE
  /\ size = 5
  /\ winner = WHITE
  /\ current_player = BLACK
  /\ FiveAlong(board, size, <<0, 1>>, BLACK)
  /\ FiveAlong(board, size, <<0, 1>>, WHITE)

====
